---- MODULE Spec2Model ----
(***************************************************************************)
(* Ingest-then-query pipeline of giftai: the HTTP service (POST            *)
(* /upload/pdf, POST /chat), the BullMQ queue "file-upload-queue" and the  *)
(* worker processor that indexes a PDF into the Qdrant collection          *)
(* "pdf-docs".                                                             *)
(*                                                                         *)
(* The repository holds two variants of each side:                         *)
(*   service  "cloud"  (src/unnamed/part_000): upload to Cloudinary, then  *)
(*                      enqueue {filename, url};                           *)
(*   service  "direct" (src/unnamed/part_001): enqueue {filename, path};   *)
(*   worker   "remote" (src/server/worker.js 1-93): download job.data.url  *)
(*                      into /tmp, index, unlink;                          *)
(*   worker   "direct" (src/server/worker.js 95-166, src/unnamed/part_002):*)
(*                      index job.data.path.                               *)
(* A step of the model is a stretch of a handler between two accesses to   *)
(* shared state (the queue, the collection): the upload handler is one     *)
(* step, the chat handler two (connect; retrieve and answer), the worker   *)
(* processor four (prepare; connect; append; create).  The collaborators   *)
(* (Cloudinary, Redis/BullMQ, Qdrant, the PDF loader, the splitter, the    *)
(* chat-completion API) are modelled by the contract the source relies on, *)
(* and every call to one of them may throw.  A write to the collection may *)
(* throw after all or part of its effect on the store took place.          *)
(* Requests of one route arrive one after the other, and the model keeps   *)
(* the latest request of each route (the handlers hold no state of their   *)
(* own); handlers, workers and the two routes interleave freely.  Idle     *)
(* workers are interchangeable, so the one that takes a job is the first   *)
(* idle one.                                                               *)
(***************************************************************************)
EXTENDS Integers, Sequences, FiniteSets, Bags

\* ---------------------------------------------------------------- bounds
MaxUploads == 2      \* upload requests in a behaviour
MaxPages == 1        \* a file has 0..MaxPages extractable pages

\* ------------------------------------------------------ program constants
TopK == 2            \* vectorStore.asRetriever({ k: 2 })

Workers == {1, 2}
NoFile == -1
Files == 0..MaxPages          \* a file is identified by its page count
Queries == {"absent", "", "q", "unseen"}   \* "unseen": text in no document

VARIABLES
  serverVariant,   \* "cloud" | "direct": which service file is deployed
  workerVariant,   \* "remote" | "direct": which worker processor is deployed
  upl,             \* the latest upload request: [id, pc, file, resp, calls];
                   \* pc "unhandled": the handler's promise rejected and no
                   \* response was sent
  chat,            \* the latest chat request: [pc, query, resp, details, ndocs, calls]
  jobs,            \* every job ever added, by id: [req, file, src, state, ...]
  waiting,         \* the queue's wait list (job ids, FIFO)
  wk,              \* workers: w -> [pc, job]
  exists,          \* whether collection pdf-docs exists
  records,         \* the collection's records: a bag of <<job, chunk>>
  tmp,             \* jobs whose temporary file /tmp/<basename> is on disk
  remote,          \* upload requests whose file is in remote storage
  uploads          \* upload requests whose file multer stored in uploads/

vars == <<serverVariant, workerVariant, upl, chat, jobs, waiting, wk,
          exists, records, tmp, remote, uploads>>

JobIds == 1..Len(jobs)

Min(a, b) == IF a < b THEN a ELSE b

\* loader.load(): one document per page of the file
Docs(f) == f

\* splitter.splitDocuments(docs): the chunks, in source order (pages here are
\* shorter than one window, so each page is one chunk)
SplitDocs(j) == [i \in 1..Docs(jobs[j].file) |-> <<j, i>>]

IdleWorker == [pc |-> "idle", job |-> 0]

\* ------------------------------------------------------------------ Init
Init ==
  /\ serverVariant \in {"cloud", "direct"}
  /\ workerVariant \in {"remote", "direct"}
  /\ upl = [id |-> 0, pc |-> "none", file |-> NoFile, resp |-> 0, calls |-> {}]
  /\ chat = [pc |-> "none", query |-> "absent", resp |-> 0,
             details |-> "none", ndocs |-> 0, calls |-> {}]
  /\ jobs = <<>>
  /\ waiting = <<>>
  /\ wk = [w \in Workers |-> IdleWorker]
  /\ exists = FALSE
  /\ records = EmptyBag
  /\ tmp = {}
  /\ remote = {}
  /\ uploads = {}

\* ------------------------------------------------- POST /upload/pdf
\* faulty variant: the handler without its file check
NoFileUploadedUnchecked(f) == FALSE

\* if (!req.file) return res.status(400)...
NoFileUploaded(f) == f = NoFile

\* the data of the job the service adds: {filename, url} or {filename, path}
NewJob(r, f) ==
  [req |-> r, file |-> f,
   src |-> IF serverVariant = "cloud" THEN "url" ELSE "path",
   state |-> "waiting", starts |-> 0, outcome |-> "none",
   fallback |-> FALSE, loaded |-> FALSE]

\* faulty variant: the handler answers without the job reaching the wait list
QueueAfterAddLost == waiting

\* await fileQueue.add("file-ready", {...}) resolving: one job on the wait list
QueueAfterAdd == Append(waiting, Len(jobs) + 1)

\* the request after fileQueue.add rejected: the cloud variant awaits it
\* inside try/catch (500); the direct variant awaits it outside any
\* try/catch, so the handler's promise rejects: a framework that forwards
\* rejected handlers to its error handler answers 500, one that does not
\* leaves the rejection unhandled and sends no response
AddFailed(r, f, calls, forwarded) ==
  IF serverVariant = "cloud" \/ forwarded
  THEN [id |-> r, pc |-> "done", file |-> f, resp |-> 500, calls |-> calls]
  ELSE [id |-> r, pc |-> "unhandled", file |-> f, resp |-> 0, calls |-> calls]

\* the files in uploads/ once multer (upload.single("pdf")) has run for
\* request r: the file, if the request carries one, is stored before the
\* handler starts
UploadsAfterMulter(r, f) == IF f = NoFile THEN uploads ELSE uploads \cup {r}

\* the external calls the handler has made once it is at fileQueue.add
CallsAtAdd ==
  IF serverVariant = "cloud" THEN {"cloudinary", "queue"} ELSE {"queue"}

\* app.post("/upload/pdf", upload.single("pdf"), async (req, res) => ...):
\* a request with file f (or none) runs through the handler; in the cloud
\* variant cloudinary.uploader.upload may throw, in both fileQueue.add may
UploadPdf(f) ==
  /\ upl.id < MaxUploads
  /\ LET r == upl.id + 1 IN
     \E out \in {"ok", "cloudThrows", "addThrows"} :
     \E forwarded \in BOOLEAN :
       /\ out = "cloudThrows" => serverVariant = "cloud"
       /\ forwarded => (out = "addThrows" /\ serverVariant = "direct")
       /\ uploads' = UploadsAfterMulter(r, f)
       /\ IF NoFileUploaded(f)
          THEN /\ upl' = [id |-> r, pc |-> "done", file |-> NoFile,
                          resp |-> 400, calls |-> {}]
               /\ UNCHANGED <<jobs, waiting, remote>>
          ELSE IF out = "cloudThrows"
          THEN /\ upl' = [id |-> r, pc |-> "done", file |-> f, resp |-> 500,
                          calls |-> {"cloudinary"}]
               /\ UNCHANGED <<jobs, waiting, remote>>
          ELSE /\ remote' = IF serverVariant = "cloud" THEN remote \cup {r}
                                                        ELSE remote
               /\ IF out = "addThrows"
                  THEN /\ upl' = AddFailed(r, f, CallsAtAdd, forwarded)
                       /\ UNCHANGED <<jobs, waiting>>
                  ELSE /\ jobs' = Append(jobs, NewJob(r, f))
                       /\ waiting' = QueueAfterAdd
                       /\ upl' = [id |-> r, pc |-> "done", file |-> f,
                                  resp |-> 200, calls |-> CallsAtAdd]
  /\ UNCHANGED <<serverVariant, workerVariant, chat, wk, exists, records, tmp>>

\* ------------------------------------------------------- POST /chat
\* faulty variant: the check tests for an absent query only, not for an empty one
QueryMissingOnlyAbsent(q) == q = "absent"

\* const { query } = req.body; if (!query) return res.status(400)...
QueryMissing(q) == q \in {"absent", ""}

\* faulty variant: the catch of the chat handler answers without setting the status
ChatFailedAnswered(q, calls, details, n) ==
  [pc |-> "done", query |-> q, resp |-> 200, details |-> details,
   ndocs |-> n, calls |-> calls]

\* the catch of the chat handler: res.status(500) with
\* details: error.response?.data || error.message
ChatFailed(q, calls, details, n) ==
  [pc |-> "done", query |-> q, resp |-> 500, details |-> details,
   ndocs |-> n, calls |-> calls]

\* faulty variant: the retriever drops neighbours that do not match the query
RetrievedMatching(q) ==
  IF q = "unseen" THEN 0 ELSE Min(TopK, BagCardinality(records))

\* retriever.invoke(query) with k = 2 and no score threshold: the nearest
\* neighbours of the query, never fewer than there are records to return
Retrieved(q) == Min(TopK, BagCardinality(records))

\* app.post("/chat", ...) up to its first await:
\* await QdrantVectorStore.fromExistingCollection(...), which throws when the
\* collection is missing or the call fails
ChatConnect(q) ==
  /\ chat.pc \in {"none", "done"}
  /\ \E ok \in BOOLEAN :
       chat' =
         IF QueryMissing(q)
         THEN [pc |-> "done", query |-> q, resp |-> 400, details |-> "none",
               ndocs |-> 0, calls |-> {}]
         ELSE IF ok /\ exists
         THEN [pc |-> "retrieve", query |-> q, resp |-> 0, details |-> "none",
               ndocs |-> 0, calls |-> {"connect"}]
         ELSE ChatFailed(q, {"connect"}, "message", 0)
  /\ UNCHANGED <<serverVariant, workerVariant, upl, jobs, waiting, wk,
                 exists, records, tmp, remote, uploads>>

\* const docs = await retriever.invoke(query);
\* const response = await axios.post(openrouter...); return res.json(...)
\* the retrieval reads the collection; the model call returns (status 200),
\* throws with an upstream payload (error.response.data) or throws without one
ChatAnswer ==
  /\ chat.pc = "retrieve"
  /\ \E out \in {"retrieveThrows", "ok", "payload", "message"} :
       chat' =
         IF out = "retrieveThrows"
         THEN ChatFailed(chat.query, {"connect", "retrieve"}, "message", 0)
         ELSE IF out = "ok"
         THEN [chat EXCEPT !.pc = "done", !.resp = 200, !.ndocs = Retrieved(chat.query),
                           !.calls = {"connect", "retrieve", "model"}]
         ELSE ChatFailed(chat.query, {"connect", "retrieve", "model"}, out,
                         Retrieved(chat.query))
  /\ UNCHANGED <<serverVariant, workerVariant, upl, jobs, waiting, wk,
                 exists, records, tmp, remote, uploads>>

\* ------------------------------------------------------------ worker
JobOf(w) == wk[w].job
Chunks(w) == SplitDocs(JobOf(w))
NChunks(w) == Len(Chunks(w))

\* faulty variant: the job stays on the wait list when a worker takes it
QueueAfterTakeKept == waiting

\* the wait list once the worker has taken its head
QueueAfterTake == Tail(waiting)

\* faulty variant: the top-level catch rethrows, so the queue sees the failure
AcknowledgeRethrown(out) == IF out = "caught" THEN "failed" ELSE "completed"

\* how the queue records a job whose processor settled: the processor's
\* top-level catch logs and swallows, so its promise always resolves and the
\* job is moved to completed whatever the outcome
Acknowledge(out) == "completed"

JobsAfter(j, out) ==
  [jobs EXCEPT ![j].state = Acknowledge(out), ![j].outcome = out]

\* new Worker("file-upload-queue", async (job) => ...): an idle worker takes
\* the job at the head of the wait list and starts the processor on it
Dequeue(w) ==
  /\ wk[w].pc = "idle"
  /\ \A w2 \in Workers : wk[w2].pc = "idle" => ~(w2 < w)
  /\ waiting # <<>>
  /\ LET j == Head(waiting) IN
       /\ jobs' = [jobs EXCEPT ![j].state = "active", ![j].starts = @ + 1]
       /\ wk' = [wk EXCEPT ![w] = [pc |-> "prepare", job |-> j]]
  /\ waiting' = QueueAfterTake
  /\ UNCHANGED <<serverVariant, workerVariant, upl, chat,
                 exists, records, tmp, remote, uploads>>

\* faulty variant: the top-level catch removes what the job wrote
AfterCatchRollback(j, recs) ==
  [x \in {y \in DOMAIN recs : y[1] # j} |-> recs[x]]

\* the collection after the top-level catch ran for job j on collection recs:
\* catch (error) { console.error("Error processing PDF:", error); } undoes
\* nothing
AfterCatch(j, recs) == recs

\* faulty variant: the top-level catch removes the job's temp file
CatchCleanup(w, j, t) ==
  /\ jobs' = JobsAfter(j, "caught")
  /\ wk' = [wk EXCEPT ![w] = IdleWorker]
  /\ tmp' = t \ {j}

\* the top-level catch: the job is abandoned and the processor returns,
\* leaving the temp files t as they are
Catch(w, j, t) ==
  /\ jobs' = JobsAfter(j, "caught")
  /\ wk' = [wk EXCEPT ![w] = IdleWorker]
  /\ tmp' = t

\* faulty variant: the processor without its check for zero docs
EmptyReturnUnchecked(w, j, t) ==
  /\ jobs' = [jobs EXCEPT ![j].loaded = TRUE]
  /\ wk' = [wk EXCEPT ![w].pc = "connect"]
  /\ tmp' = t

\* faulty variant: the zero-docs branch awaits something that never settles
EmptyReturnStuck(w, j, t) ==
  /\ jobs' = jobs
  /\ wk' = [wk EXCEPT ![w].pc = "stuck"]
  /\ tmp' = t

\* if (!docs.length) { console.error(...); return; }
EmptyReturn(w, j, t) ==
  /\ jobs' = JobsAfter(j, "empty")
  /\ wk' = [wk EXCEPT ![w] = IdleWorker]
  /\ tmp' = t

\* faulty variant: the remote variant without its fs.unlinkSync
TmpAfterSuccessKept(j) == tmp

\* the temp files once the upsert is through: the remote variant runs
\* fs.unlinkSync(tempFilePath), the direct variant deletes nothing
TmpAfterSuccess(j) == IF workerVariant = "remote" THEN tmp \ {j} ELSE tmp

\* the processor runs off its end after the inner try or the inner catch
Success(w, j, out) ==
  /\ jobs' = JobsAfter(j, out)
  /\ wk' = [wk EXCEPT ![w] = IdleWorker]
  /\ tmp' = TmpAfterSuccess(j)

\* faulty variant: no inner try/catch, a throw of the append goes to the top-level catch
EnterFallbackAbandon(w, j) ==
  /\ jobs' = [jobs EXCEPT ![j].state = "completed", ![j].outcome = "caught"]
  /\ wk' = [wk EXCEPT ![w] = [pc |-> "idle", job |-> 0]]
  /\ tmp' = tmp

\* faulty variant: the create-fallback behind a lock, entered by one worker at a time
EnterFallbackLocked(w, j) ==
  /\ \A v \in Workers \ {w} : wk[v].pc # "create"
  /\ jobs' = [jobs EXCEPT ![j].fallback = TRUE]
  /\ wk' = [wk EXCEPT ![w].pc = "create"]
  /\ tmp' = tmp

\* the inner catch (err) { console.log("Collection not found, creating new...")
\* is entered on any throw of fromExistingCollection or addDocuments
EnterFallback(w, j) ==
  /\ jobs' = [jobs EXCEPT ![j].fallback = TRUE]
  /\ wk' = [wk EXCEPT ![w].pc = "create"]
  /\ tmp' = tmp

\* whether the job carries what the processor reads: job.data.url in the
\* remote variant (if (!fileUrl) throw ...), job.data.path in the direct one
\* (PDFLoader of an undefined path throws on load)
HasSource(j) ==
  IF workerVariant = "remote"
  THEN jobs[j].src = "url"
  ELSE jobs[j].src = "path" /\ jobs[j].req \in uploads

\* the temp files once the download is through:
\* fs.writeFileSync(tempFilePath, response.data), remote variant only
TmpAfterDownload(j) == IF workerVariant = "remote" THEN tmp \cup {j} ELSE tmp

\* the processor up to the upsert: resolve the bytes (remote variant:
\* await axios.get(fileUrl), write the temp file), await loader.load(),
\* return on zero docs, await splitter.splitDocuments(docs); each call may
\* throw into the top-level catch
Prepare(w) ==
  /\ wk[w].pc = "prepare"
  /\ LET j == JobOf(w) IN
     \E out \in {"ok", "downloadThrows", "loadThrows", "splitThrows"} :
       /\ out = "downloadThrows" => workerVariant = "remote"
       /\ IF out = "downloadThrows" \/ ~HasSource(j)
          THEN Catch(w, j, tmp)
          ELSE IF out = "loadThrows"
          THEN Catch(w, j, TmpAfterDownload(j))
          ELSE IF Docs(jobs[j].file) = 0
          THEN EmptyReturn(w, j, TmpAfterDownload(j))
          ELSE IF out = "splitThrows"
          THEN /\ jobs' = [JobsAfter(j, "caught") EXCEPT ![j].loaded = TRUE]
               /\ wk' = [wk EXCEPT ![w] = IdleWorker]
               /\ tmp' = TmpAfterDownload(j)
          ELSE /\ jobs' = [jobs EXCEPT ![j].loaded = TRUE]
               /\ wk' = [wk EXCEPT ![w].pc = "connect"]
               /\ tmp' = TmpAfterDownload(j)
       /\ records' = IF jobs'[j].outcome = "caught"
                     THEN AfterCatch(j, records) ELSE records
  /\ UNCHANGED <<serverVariant, workerVariant, upl, chat, waiting, remote,
                 uploads, exists>>

\* await QdrantVectorStore.fromExistingCollection(...): throws when the
\* collection is missing or the call fails
Connect(w) ==
  /\ wk[w].pc = "connect"
  /\ LET j == JobOf(w) IN
     \E ok \in BOOLEAN :
       IF ok /\ exists
       THEN /\ wk' = [wk EXCEPT ![w].pc = "add"]
            /\ UNCHANGED <<jobs, tmp>>
       ELSE EnterFallback(w, j)
  /\ UNCHANGED <<serverVariant, workerVariant, upl, chat, waiting, remote,
                 uploads, exists, records>>

\* the collection after a write of the first k of the chunks
Written(w, k) == records (+) SetToBag({Chunks(w)[i] : i \in 1..k})

\* await vectorStore.addDocuments(splitDocs): all of the chunks are written
\* and the call returns, or the call throws into the inner catch after none,
\* some or all of them were written
Add(w) ==
  /\ wk[w].pc = "add"
  /\ LET j == JobOf(w) IN
     \E k \in 0..NChunks(w) :
     \E ok \in BOOLEAN :
       /\ records' = Written(w, k)
       /\ IF ok /\ k = NChunks(w)
          THEN Success(w, j, "appended")
          ELSE EnterFallback(w, j)
  /\ UNCHANGED <<serverVariant, workerVariant, upl, chat, waiting, remote,
                 uploads, exists>>

\* faulty variant: fromDocuments recreates the collection, dropping what it held
CreateWrittenFresh(w, k) == SetToBag({Chunks(w)[i] : i \in 1..k})

\* the collection after fromDocuments reached the store and wrote k chunks:
\* the collection is created when missing, and the chunks are added to it
CreateWritten(w, k) == Written(w, k)

\* await QdrantVectorStore.fromDocuments(splitDocs, ...): the store is not
\* reached, or the collection is made to exist and all or the first k chunks
\* are written; the call returns once all are written, or throws into the
\* top-level catch
Create(w) ==
  /\ wk[w].pc = "create"
  /\ LET j == JobOf(w) IN
     \E reached \in BOOLEAN :
     \E k \in 0..NChunks(w) :
     \E ok \in BOOLEAN :
       /\ reached \/ k = 0
       /\ exists' = (exists \/ reached)
       /\ IF ok /\ k = NChunks(w)
          THEN /\ Success(w, j, "created")
               /\ records' = CreateWritten(w, k)
          ELSE /\ Catch(w, j, tmp)
               /\ records' = AfterCatch(j, IF reached THEN CreateWritten(w, k)
                                                      ELSE records)
  /\ UNCHANGED <<serverVariant, workerVariant, upl, chat, waiting, remote,
                 uploads>>

\* ------------------------------------------------------------------ Next
Next ==
  \/ \E f \in Files \cup {NoFile} : UploadPdf(f)
  \/ \E q \in Queries : ChatConnect(q)
  \/ ChatAnswer
  \/ \E w \in Workers : Dequeue(w)
  \/ \E w \in Workers : Prepare(w)
  \/ \E w \in Workers : Connect(w)
  \/ \E w \in Workers : Add(w)
  \/ \E w \in Workers : Create(w)

Spec == Init /\ [][Next]_vars

\* one step of worker w's processor or of its taking the next job
WorkerStep(w) ==
  Dequeue(w) \/ Prepare(w) \/ Connect(w) \/ Add(w) \/ Create(w)

\* each worker process keeps running: it takes a job when one waits and it
\* is idle, and every call its processor awaits returns or throws
WorkerFairness == \A w \in Workers : WF_vars(WorkerStep(w))

\* the ingestion side of the program: uploads and the workers. The chat
\* handler only reads the collection; it leaves jobs, wait list and workers
\* as they are, so it is left out where the progress of jobs is at issue
IngestNext ==
  \/ \E f \in Files \cup {NoFile} : UploadPdf(f)
  \/ \E w \in Workers : WorkerStep(w)

FairSpec == Init /\ [][IngestNext]_vars /\ WorkerFairness

\* ======================================================== properties
\* the jobs added for upload request r
JobsOfRequest(r) == {j \in JobIds : jobs[j].req = r}
\* the records in the collection that job j wrote
RecordsOf(j) == {x \in BagToSet(records) : x[1] = j}
Succeeded(j) == jobs[j].outcome \in {"appended", "created"}
Busy == {w \in Workers : wk[w].pc # "idle"}
InWaiting(j) == \E i \in 1..Len(waiting) : waiting[i] = j

\* C1: a POST /upload/pdf request that carries no file is answered 400, having
\* made no call to remote storage or to the queue: the jobs, the wait list
\* and the remote storage are the same after the request as before it.
C1_NoFileRejected ==
  [][(upl'.id # upl.id /\ upl'.file = NoFile) =>
       /\ upl'.resp = 400 /\ upl'.pc = "done" /\ upl'.calls = {}
       /\ UNCHANGED <<jobs, waiting, remote>>]_vars

C1_Witness == upl.resp = 400 /\ upl.file = NoFile /\ waiting # <<>>

\* C2: a POST /chat request whose query is absent or the empty string is
\* answered 400 before any connect, retrieval or chat-completion call.
C2_EmptyQueryRejected ==
  (chat.pc # "none" /\ chat.query \in {"absent", ""}) =>
    (chat.resp = 400 /\ chat.pc = "done" /\ chat.calls = {} /\ chat.ndocs = 0)

C2_Witness ==
  chat.query = "" /\ chat.resp = 400 /\ exists /\ records # EmptyBag

\* the chunks of job j, as records
ChunkSet(j) == {SplitDocs(j)[i] : i \in 1..Len(SplitDocs(j))}
AllWritten(j) == \A x \in ChunkSet(j) : CopiesIn(x, records) >= 1

\* C3 as claimed: starting from a missing collection, only the first job with
\* extracted segments goes by the create-fallback; every later job that
\* succeeds does so without entering the fallback.  So no two jobs that
\* succeeded have both entered the fallback.
C3_Original ==
  \A j1, j2 \in JobIds :
    (j1 # j2 /\ Succeeded(j1) /\ Succeeded(j2)) =>
      ~(jobs[j1].fallback /\ jobs[j2].fallback)

\* C3 as amended: starting from a missing collection, the collection comes to
\* exist only through a job's create-fallback: while it is missing nothing is
\* in it and no job has succeeded, a job whose connect finds it missing
\* enters the fallback, and the job that succeeds while it is still missing
\* succeeds by the create path with its chunks as the collection's contents.
\* A job that succeeds by the append path never entered the fallback and
\* found the collection existing; a job that succeeds by the create path
\* entered the fallback; either way all its chunks are in the collection.
C3_CreateThenAppend ==
  /\ [](/\ ~exists => (records = EmptyBag /\ \A j \in JobIds : ~Succeeded(j))
        /\ \A j \in JobIds :
             /\ jobs[j].outcome = "appended" =>
                  (~jobs[j].fallback /\ exists /\ AllWritten(j))
             /\ jobs[j].outcome = "created" =>
                  (jobs[j].fallback /\ exists /\ AllWritten(j)))
  /\ [][/\ (~exists /\ exists') =>
             \E w \in Workers : wk[w].pc = "create" /\ wk'[w].pc = "idle"
        /\ \A w \in Workers :
             (wk[w].pc = "connect" /\ wk'[w] # wk[w] /\ ~exists) =>
               (wk'[w].pc = "create" /\ jobs'[JobOf(w)].fallback)
        /\ \A j \in JobIds :
             (~exists /\ ~Succeeded(j)
                /\ jobs'[j].outcome \in {"appended", "created"}) =>
               (jobs'[j].outcome = "created" /\ records' = SetToBag(ChunkSet(j)))
       ]_vars

C3_Witness ==
  \E j1, j2 \in JobIds :
    /\ jobs[j1].outcome = "created"
    /\ jobs[j2].outcome = "appended" /\ ~jobs[j2].fallback
    /\ \A j \in JobIds : jobs[j].fallback => j = j1

\* C4: the upload handler answers 200 in the step that adds the job, without
\* waiting for a worker: at a 200 exactly one job of that request has been
\* added and is waiting, unprocessed, at the tail of the wait list (in the
\* cloud variant the file is in remote storage by then), and a failed remote
\* upload is answered 500 with no job added.  No request ever has two jobs.
C4_RespondsOnEnqueue ==
  /\ [](/\ \A j1, j2 \in JobIds : jobs[j1].req = jobs[j2].req => j1 = j2
        /\ upl.resp = 200 => Cardinality(JobsOfRequest(upl.id)) = 1
        /\ (upl.resp = 200 /\ serverVariant = "cloud") => upl.id \in remote)
  /\ [][upl'.id # upl.id =>
         /\ upl'.resp = 200 =>
              /\ Len(jobs') = Len(jobs) + 1
              /\ JobsOfRequest(upl'.id) = {}
              /\ jobs'[Len(jobs')].req = upl'.id
              /\ jobs'[Len(jobs')].state = "waiting"
              /\ jobs'[Len(jobs')].starts = 0
              /\ waiting' = Append(waiting, Len(jobs'))
              /\ "queue" \in upl'.calls
              /\ UNCHANGED <<wk, records, exists>>
         /\ (serverVariant = "cloud" /\ upl'.file # NoFile
               /\ upl'.id \notin remote') =>
              (upl'.resp = 500 /\ UNCHANGED <<jobs, waiting>>
                 /\ "queue" \notin upl'.calls)
       ]_vars

C4_Witness ==
  /\ upl.resp = 200
  /\ \E j \in JobsOfRequest(upl.id) : jobs[j].state = "waiting" /\ InWaiting(j)
  /\ Busy # {}

\* C5: every job is dequeued at most once and by one worker: no job's
\* processor is started twice, no two workers hold the same job, a job is
\* either waiting (not started), held by exactly one worker, or completed.
C5_DequeuedOnce ==
  \A j \in JobIds :
    /\ jobs[j].starts <= 1
    /\ Cardinality({i \in 1..Len(waiting) : waiting[i] = j}) <= 1
    /\ Cardinality({w \in Workers : wk[w].job = j}) <= 1
    /\ jobs[j].state = "waiting" <=>
         (InWaiting(j) /\ jobs[j].starts = 0 /\ \A w \in Workers : wk[w].job # j)
    /\ jobs[j].state = "active" <=>
         (~InWaiting(j) /\ jobs[j].starts = 1 /\ \E w \in Workers : wk[w].job = j)
    /\ jobs[j].state \notin {"waiting", "active"} =>
         (~InWaiting(j) /\ jobs[j].starts = 1 /\ \A w \in Workers : wk[w].job # j)

C5_Witness ==
  /\ Busy = Workers
  /\ \A w1, w2 \in Workers : w1 # w2 => wk[w1].job # wk[w2].job

\* C6 as claimed: a job is acknowledged as completed only when its processing
\* completed; a job whose processing failed with an exception is not
\* acknowledged as completed.
C6_Original ==
  \A j \in JobIds : jobs[j].outcome = "caught" => jobs[j].state # "completed"

\* C6 as amended: a job is acknowledged as completed as soon as its processor
\* returns, whatever the outcome: also a job whose processing failed with an
\* exception is moved to completed, never to failed, and is not put back on the
\* wait list, so the failure is not visible to the queue.
C6_AcknowledgedWhateverOutcome ==
  \A j \in JobIds :
    /\ jobs[j].state \in {"waiting", "active", "completed"}
    /\ jobs[j].outcome # "none" <=> jobs[j].state = "completed"
    /\ jobs[j].state = "completed" =>
         (~InWaiting(j) /\ \A w \in Workers : wk[w].job # j)

C6_Witness ==
  \E j \in JobIds :
    jobs[j].outcome = "caught" /\ jobs[j].loaded /\ jobs[j].state = "completed"

\* C7: a job whose PDF yields zero segments ends without an upsert: it never
\* reaches the connect, append or create step, the step that ends it leaves
\* the collection (its existence and its records) and the wait list as they
\* were, no record of it is ever in the collection, and it is completed after
\* one run, not put back on the wait list.
C7_EmptyAborts ==
  /\ [](/\ \A w \in Busy : Docs(jobs[JobOf(w)].file) = 0 => wk[w].pc = "prepare"
        /\ \A j \in JobIds :
             /\ Docs(jobs[j].file) = 0 => (RecordsOf(j) = {} /\ ~jobs[j].fallback)
             /\ jobs[j].outcome = "empty" =>
                  /\ Docs(jobs[j].file) = 0 /\ ~jobs[j].loaded
                  /\ jobs[j].state = "completed" /\ jobs[j].starts = 1
                  /\ ~InWaiting(j))
  /\ [][\A j \in JobIds :
          (jobs[j].outcome # "empty" /\ jobs'[j].outcome = "empty") =>
            UNCHANGED <<exists, records, waiting>>]_vars

C7_Witness ==
  \E j \in JobIds :
    jobs[j].outcome = "empty" /\ ~exists /\ j \in tmp /\ waiting # <<>>

\* C8: an exception in any step of the processor ends in the top-level catch:
\* no job is ever failed towards the queue (the processor does not propagate),
\* the job is abandoned (completed, its worker idle again), and the step that
\* abandons it removes nothing from the collection: what the job wrote before
\* the exception is still there afterwards.
C8_CaughtNoRollback ==
  /\ [](\A j \in JobIds : jobs[j].state # "failed")
  /\ [][\A j \in JobIds :
          (jobs[j].outcome # "caught" /\ jobs'[j].outcome = "caught") =>
            /\ jobs'[j].state = "completed"
            /\ \A w \in Workers : wk[w].job = j => wk'[w].pc = "idle"
            /\ \A x \in BagToSet(records) :
                 CopiesIn(x, records') >= CopiesIn(x, records)
            /\ exists => exists'
            /\ waiting' = waiting]_vars

C8_Witness ==
  \E j \in JobIds :
    /\ jobs[j].outcome = "caught" /\ jobs[j].fallback
    /\ RecordsOf(j) # {}

\* C9: the collection is append-only: no step removes a record or lowers the
\* number of copies of one, the collection once existing keeps existing, and
\* a step of the chat handler leaves the collection as it was.
C9_AppendOnly ==
  [][/\ \A x \in BagToSet(records) : CopiesIn(x, records') >= CopiesIn(x, records)
     /\ BagCardinality(records') >= BagCardinality(records)
     /\ exists => exists'
     /\ chat' # chat => (records' = records /\ exists' = exists)]_vars

C9_Witness ==
  /\ chat.resp = 200 /\ chat.ndocs = TopK
  /\ \E j1, j2 \in JobIds : j1 # j2 /\ Succeeded(j1) /\ jobs[j2].outcome = "created"

RECURSIVE SumCopies(_, _)
\* the number of copies of chunk i over the jobs J
SumCopies(J, i) ==
  IF J = {} THEN 0
  ELSE LET j == CHOOSE x \in J : TRUE
       IN CopiesIn(<<j, i>>, records) + SumCopies(J \ {j}, i)

JobsOfFile(f) == {j \in JobIds : jobs[j].file = f}

\* C10 as claimed: the same file uploaded n times gives n jobs, and once all n
\* have indexed successfully the collection holds n copies of each of the
\* file's chunks.
C10_Original ==
  \A f \in Files :
    (JobsOfFile(f) # {} /\ \A j \in JobsOfFile(f) : Succeeded(j)) =>
      \A i \in 1..Docs(f) :
        SumCopies(JobsOfFile(f), i) = Cardinality(JobsOfFile(f))


\* ------------------------------------------------------------------ C11
\* C11: nothing keeps two workers apart on a missing collection: a worker
\* whose connect meets a missing collection can always go on into the
\* create-fallback, and a worker in the create-fallback can always issue its
\* create, whatever the other worker is doing and whether or not the
\* collection has come to exist meanwhile; so both workers can be in the
\* create-fallback at once, both having found the collection missing.
C11_NoMutualExclusion ==
  \A w \in Workers :
    /\ (wk[w].pc = "connect" /\ ~exists) =>
         ENABLED (Connect(w) /\ wk'[w].pc = "create")
    /\ wk[w].pc = "create" => ENABLED Create(w)

\* both workers are in the create-fallback for two different jobs and the
\* collection still does not exist
C11_Witness ==
  /\ \A w \in Workers : wk[w].pc = "create" /\ jobs[wk[w].job].fallback
  /\ wk[1].job # wk[2].job
  /\ ~exists
  /\ records = EmptyBag

\* ------------------------------------------------------------------ C12
\* C12: a chat request that is answered 200 returns min(2, number of records
\* in the collection) chunks, whatever the query text and whether or not it
\* occurs in a document: never more than 2, and never zero while the
\* collection holds a record.
C12_TopTwoOfWhatThereIs ==
  [][(chat.pc = "retrieve" /\ chat'.pc = "done" /\ chat'.resp = 200) =>
       LET n == BagCardinality(records) IN
         /\ chat'.ndocs = (IF n < 2 THEN n ELSE 2)
         /\ chat'.ndocs <= 2
         /\ n > 0 => chat'.ndocs > 0]_vars

\* a query whose text is in no document was answered 200 with two chunks out
\* of a collection of three or more records
C12_Witness ==
  /\ chat.pc = "done" /\ chat.resp = 200
  /\ chat.query = "unseen"
  /\ chat.ndocs = 2
  /\ BagCardinality(records) >= 3

\* ------------------------------------------------------------------ C13
\* C13: a chat request gets one response, which is 400, 200 or 500, set at
\* the step that ends the request and at no other: 400 exactly for a missing
\* query; for a non-empty query a failing connect, retrieval or model call
\* gives 500 whose details are the upstream payload (only a model call can
\* supply one) or else the error message; and 200 is sent only when connect,
\* retrieval and model call have all returned.
C13_OneResponse ==
  /\ [](/\ chat.pc = "done" => chat.resp \in {400, 200, 500}
        /\ chat.pc \in {"none", "retrieve"} => chat.resp = 0
        /\ chat.resp = 400 <=> (chat.pc = "done" /\ chat.query \in {"absent", ""})
        /\ chat.resp = 200 => chat.calls = {"connect", "retrieve", "model"}
        /\ chat.resp = 500 =>
             /\ chat.details \in {"payload", "message"}
             /\ chat.details = "payload" => "model" \in chat.calls
        /\ chat.resp # 500 => chat.details = "none"
        /\ chat.pc = "retrieve" => ENABLED ChatAnswer)
  /\ [][/\ (chat.pc = "retrieve" /\ chat' # chat) =>
             (chat'.pc = "done" /\ chat'.resp \in {200, 500}
              /\ chat'.query = chat.query)
        /\ (chat.pc = "done" /\ chat' # chat) =>
             (chat'.pc = "retrieve" \/ chat'.resp \in {400, 500})]_vars

\* the model call of a chat request threw with an upstream payload and the
\* request was answered 500 with that payload as details
C13_Witness ==
  /\ chat.pc = "done" /\ chat.resp = 500
  /\ chat.details = "payload"
  /\ chat.calls = {"connect", "retrieve", "model"}

\* ------------------------------------------------------------------ C14
\* C14: with the remote-download worker, the step at which a job succeeds
\* (by the append path or by the create-fallback) removes the temporary file
\* the job downloaded, so no succeeded job has a temp file on disk; with the
\* direct-upload worker no step removes a file from uploads/, and the file of
\* every job that succeeded is still there.
C14_TempDeletedOnSuccess ==
  /\ [](/\ workerVariant = "remote" =>
             \A j \in JobIds : Succeeded(j) => j \notin tmp
        /\ workerVariant = "direct" =>
             \A j \in JobIds : Succeeded(j) => jobs[j].req \in uploads)
  /\ [][/\ workerVariant = "remote" =>
             \A j \in JobIds :
               (jobs[j].state = "active" /\ jobs'[j].state # "active"
                /\ jobs'[j].outcome \in {"appended", "created"}) =>
                 (j \in tmp /\ tmp' = tmp \ {j})
        /\ workerVariant = "direct" => (uploads \subseteq uploads' /\ tmp' = tmp)
       ]_vars

\* the remote-download worker has finished one job by the append path and
\* one by the create-fallback, and neither temp file is on disk
C14_Witness ==
  /\ workerVariant = "remote"
  /\ \E j \in JobIds : jobs[j].outcome = "appended" /\ j \notin tmp
  /\ \E j \in JobIds : jobs[j].outcome = "created" /\ j \notin tmp

\* ------------------------------------------------------------------ C15
\* C15 as claimed: a worker goes into the create-fallback only from an
\* attempt that met a collection that does not exist, so the collection
\* holds no record at that moment and the chunks the fallback writes are its
\* initial contents.
C15_Original ==
  [][\A w \in Workers :
       (wk[w].pc \in {"connect", "add"} /\ wk'[w].pc = "create") =>
         (~exists /\ records = EmptyBag)]_vars

\* ------------------------------------------------------------------ C17
\* C17 as claimed: within one job each chunk is written to the collection at
\* most once, so no state holds two records of the same chunk from the same
\* job, also after an append that failed part-way.
C17_Original ==
  \A j \in JobIds : \A x \in RecordsOf(j) : CopiesIn(x, records) <= 1

\* ------------------------------------------------------------------ C18
\* C18 as claimed: every upload request that has been taken in has its one
\* response, 400, 200 or 500, also when adding the job to the queue failed,
\* in the cloud-storage variant and in the direct-upload variant alike.
C18_Original ==
  upl.pc # "none" => (upl.pc = "done" /\ upl.resp \in {400, 200, 500})

\* ------------------------------------------------------------------ C19
\* C19: with the remote-download worker a temp file leaves the disk only at
\* the step at which its job succeeds: a job that wrote its temp file and
\* then ended on zero segments, or on an exception of a later step (a failing
\* create-fallback included), has its temp file still on disk; and a job
\* whose data has no url never has a temp file, never gets as far as loading
\* and has no record in the collection.
C19_TempKeptOffSuccessPath ==
  /\ [](workerVariant = "remote" =>
          \A j \in JobIds :
            /\ jobs[j].outcome = "empty" => j \in tmp
            /\ (jobs[j].outcome = "caught" /\ (jobs[j].loaded \/ jobs[j].fallback))
                 => j \in tmp
            /\ ((\E w \in Workers : wk[w].job = j) /\ jobs[j].loaded)
                 => j \in tmp
            /\ jobs[j].src # "url" =>
                 /\ j \notin tmp
                 /\ ~jobs[j].loaded
                 /\ jobs[j].outcome \in {"none", "caught"}
                 /\ RecordsOf(j) = {})
  /\ [][workerVariant = "remote" =>
          \A j \in tmp :
            j \notin tmp' =>
              (jobs[j].state = "active"
               /\ jobs'[j].outcome \in {"appended", "created"})]_vars

\* the create-fallback of a job of the remote-download worker threw, the job
\* has ended in the top-level catch and its temp file is still on disk
C19_Witness ==
  /\ workerVariant = "remote"
  /\ \E j \in JobIds :
       /\ jobs[j].state = "completed" /\ jobs[j].outcome = "caught"
       /\ jobs[j].fallback
       /\ j \in tmp

\* a job without url has been through the remote-download worker
C19_NoUrlJobDone ==
  /\ workerVariant = "remote"
  /\ \E j \in JobIds : jobs[j].src # "url" /\ jobs[j].outcome = "caught"

\* ------------------------------------------------------------------ C20
\* C20: with every worker process weakly fair and every awaited call
\* returning or throwing, every job that was added leaves the wait list and
\* its processor terminates (success, zero-docs return or caught exception),
\* no job stays active forever, every busy worker becomes idle again, and
\* once the last upload has been made the queue drains.
C20_EveryJobFinishes ==
  /\ \A j \in 1..MaxUploads :
       /\ (j \in JobIds) ~>
            (/\ j \in JobIds
             /\ jobs[j].state = "completed"
             /\ jobs[j].outcome \in {"appended", "created", "empty", "caught"})
       /\ (j \in JobIds /\ InWaiting(j)) ~> (j \in JobIds /\ ~InWaiting(j))
       /\ (j \in JobIds /\ jobs[j].state = "active") ~>
            (j \in JobIds /\ jobs[j].state # "active")
  /\ \A w \in Workers : (wk[w].pc # "idle") ~> (wk[w].pc = "idle")
  /\ (upl.id = MaxUploads) ~> [](waiting = <<>> /\ Busy = {})

\* two jobs were added and taken, one ended in the top-level catch and one
\* succeeded, the wait list is empty and both workers are idle again
C20_Witness ==
  /\ waiting = <<>> /\ Busy = {}
  /\ \E j \in JobIds : jobs[j].state = "completed" /\ jobs[j].outcome = "caught"
  /\ \E j \in JobIds : jobs[j].state = "completed" /\ Succeeded(j)

====
